---- MODULE Spec2Model ----
(***************************************************************************)
(* Model of the Torus connector for wagmi (src/src/torusConnector.ts).     *)
(*                                                                         *)
(* The connector keeps two pieces of state in the closure of               *)
(* torusConnector(): the SDK instance handle __torus and the network       *)
(* descriptor.  Everything else lives in the embedded-wallet SDK, which is *)
(* modelled by the part of its state the connector reads or changes:       *)
(* isInitialized, isLoggedIn, the active chain, the listeners registered   *)
(* on its provider.  Every outcome of an SDK call (resolve or reject, the  *)
(* raw payload of a request) is a nondeterministic choice.                 *)
(*                                                                         *)
(* One action per connector operation.  The caller issues the operations   *)
(* one at a time; an operation runs to its settled promise in one step.    *)
(* The only continuation that outlives the operation that started it is    *)
(* the isAuthorized() call that switchChain does not await: while it waits *)
(* for the SDK's init it is counted in `detached` and resumes in an action *)
(* of its own.                                                             *)
(***************************************************************************)
EXTENDS Integers, Sequences, FiniteSets, TLC

\* ------------------------------------------------------------------ bounds
MaxRaw == 3          \* longest raw account list handed to getAccounts / onAccountsChanged
MaxWallet == 1       \* longest raw account list inside the composite operations
MaxListeners == 2    \* registrations per event on one provider
MaxDetached == 1     \* un-awaited isAuthorized() calls waiting for init

\* --------------------------------------------------------- chain descriptors
Undefined == "undefined"

Mainnet ==
  [id |-> 1, name |-> "Ethereum", currencyName |-> "Ether", symbol |-> "ETH",
   explorer |-> "https://etherscan.io", rpc |-> "https://rpc.mainnet"]

Goerli ==
  [id |-> 5, name |-> "Goerli", currencyName |-> "Goerli Ether", symbol |-> "GOR",
   explorer |-> Undefined, rpc |-> "https://rpc.goerli"]

\* a second entry with Goerli's id: find() must take the first one
GoerliAlt ==
  [id |-> 5, name |-> "GoerliAlt", currencyName |-> "Alt Ether", symbol |-> "ALT",
   explorer |-> "https://alt.explorer", rpc |-> Undefined]

NoChain ==
  [id |-> 0, name |-> "", currencyName |-> "", symbol |-> "",
   explorer |-> "", rpc |-> ""]

ChainLists == { <<Mainnet, Goerli>>, <<Goerli, GoerliAlt>> }

\* chain ids a caller or the wallet can name; 7 is in no configured list,
\* 0 stands for "no chainId given" (falsy in the source)
RequestIds == {0, 1, 5, 7}
WalletChainIds == {1, 5, 7}

\* options.chainId and options.host; 0 and "" stand for "not given"
OptionSets == [chainId : {0, 5}, host : {"", "custom"}]

\* ------------------------------------------------------------ pure helpers
RECURSIVE Find(_, _)
\* Array.prototype.find on the chain list: the first entry with that id
Find(list, chainId) ==
  IF list = <<>> THEN NoChain
  ELSE IF Head(list).id = chainId THEN Head(list)
  ELSE Find(Tail(list), chainId)

Found(chain) == chain # NoChain

\* x || ""
OrEmpty(x) == IF x = Undefined \/ x = "" THEN "" ELSE x

\* viem getAddress: the checksum form of an address, whatever its casing
getAddress_asGiven(address) == address

getAddress(address) ==
  CASE address \in {"0xab", "0xAb", "0xAB"} -> "0xAb"
    [] address \in {"0xcd", "0xCd"} -> "0xCd"
    [] OTHER -> "InvalidAddress"

\* entries of a raw eth_accounts response: addresses in some casing, the
\* empty string and null
Null == "<null>"
RawEntries == {"0xab", "0xCd", "", Null}
ListsUpTo(n) == UNION { [1..k -> RawEntries] : k \in 0..n }
RawLists == ListsUpTo(MaxRaw)
WalletLists == ListsUpTo(MaxWallet)

\* JS truthiness of a list entry
TruthyEntry(address) == address \notin {"", Null}

RECURSIVE Reduce_distinct(_)
Reduce_distinct(raw) ==
  IF raw = <<>> THEN <<>>
  ELSE LET rest == Reduce_distinct(Tail(raw))
           address == getAddress(Head(raw))
       IN  IF TruthyEntry(Head(raw)) /\ ~(\E i \in 1..Len(rest) : rest[i] = address)
           THEN <<address>> \o rest
           ELSE rest

RECURSIVE Reduce(_)
\* raw.reduce((acc, address) => { if (address) acc.push(getAddress(address)) })
Reduce(raw) ==
  IF raw = <<>> THEN <<>>
  ELSE IF TruthyEntry(Head(raw)) THEN <<getAddress(Head(raw))>> \o Reduce(Tail(raw))
  ELSE Reduce(Tail(raw))

\* the SDK reports chain ids as hex strings
HexOf(n) ==
  CASE n = 1 -> "0x1" [] n = 5 -> "0x5" [] n = 7 -> "0x7" [] OTHER -> "0x"

NaN == -1

\* Number(string)
NumberOf(str) ==
  CASE str = "0x1" -> 1 [] str = "0x5" -> 5 [] str = "0x7" -> 7 [] OTHER -> NaN

\* ------------------------------------------------------------------- state
VARIABLES
  chains,     \* the configured chain list (`chains` of torusConnector)
  options,    \* options.chainId and options.host
  torus,      \* __torus: FALSE (undefined) until setup() creates the instance
  network,    \* the network descriptor
  sdk,        \* state of the SDK instance __torus refers to
  detached,   \* un-awaited isAuthorized() calls that wait for the SDK's init
  last        \* the operation the caller awaits, as it settled ("none": idle)

vars == <<chains, options, torus, network, sdk, detached, last>>

NoNetwork ==
  [defined |-> FALSE, host |-> "", chainId |-> 0, networkName |-> "",
   tickerName |-> "", ticker |-> "", blockExplorer |-> ""]

\* new Torus({...}): not initialized, nobody logged in, no provider yet
NewTorus ==
  [isInitialized |-> FALSE, isLoggedIn |-> FALSE, chainId |-> 0,
   accountsChanged |-> 0, chainChanged |-> 0,
   initCalled |-> FALSE, initNetwork |-> NoNetwork]

\* the chain the wallet is on when init() is given no network
DefaultWalletChain == 1

\* ------------------------------------------------------------------ errors
\* an error is the list of its kinds, outermost first (an error and its causes)
NoError == <<>>
UninitializedError == <<"Torus instance not initialized">>
ChainNotFound == <<"SwitchChainError", "chain not found on connector.">>
LoginFirst == <<"Please login first">>
InitRejected == <<"init rejected">>
LoginRejected == <<"login rejected">>
LogoutRejected == <<"logout rejected">>
AccountsRejected == <<"eth_accounts rejected">>
ChainIdRejected == <<"eth_chainId rejected">>
SetProviderRejected == <<"setProvider rejected">>
SwitchChainError(cause) == <<"SwitchChainError">> \o cause
Kind(err) == IF err = NoError THEN "none" ELSE Head(err)

\* --------------------------------------------------- outcomes of SDK calls
\* what provider.request({method: "eth_accounts"}) settles with
NoResponse == [status |-> "none", list |-> <<>>]
Rejected == [status |-> "rejected", list |-> <<>>]
MissingList == [status |-> "missing", list |-> <<>>]
Listed(list) == [status |-> "list", list |-> list]

NoAccounts == {Rejected, MissingList, Listed(<<>>)}
RawOutcomes == {Rejected, MissingList} \cup { Listed(l) : l \in RawLists }
WalletOutcomes == {Rejected, MissingList} \cup { Listed(l) : l \in WalletLists }

\* a wallet nobody is logged in to has no accounts to report
AccountsOutcomes(s, all) == IF s.isLoggedIn THEN all ELSE NoAccounts

\* init() is called only on an instance that is not initialized
InitOutcomes(s) == IF torus /\ ~s.isInitialized THEN BOOLEAN ELSE {TRUE}

\* ------------------------------------------------- how an operation settles
\* s: the SDK afterwards; calls: the SDK calls in the order they were issued
\* and settled; err: the rejection, if any; then the value the caller gets;
\* spawn: un-awaited continuations left behind; network: the descriptor afterwards
Ok(s, calls) ==
  [s |-> s, calls |-> calls, err |-> NoError, accounts |-> <<>>, id |-> 0,
   flag |-> FALSE, chain |-> NoChain, spawn |-> 0, network |-> network]

Fail(s, calls, err) == [Ok(s, calls) EXCEPT !.err = err]

Failed(r) == r.err # NoError

\* ------------------------------------------------------ connector internals
isChainUnsupported_inverted(chainId) ==
  \E i \in 1..Len(chains) : chains[i].id = chainId

isChainUnsupported(chainId) ==
  ~(\E i \in 1..Len(chains) : chains[i].id = chainId)

getTorus_lazy == NoError

\* NoError when the instance exists, otherwise the error getTorus throws
getTorus == IF ~torus THEN UninitializedError ELSE NoError

InitChain(net) == IF net.defined THEN net.chainId ELSE DefaultWalletChain

getProvider_alwaysInits(s, initOk) ==
  IF getTorus # NoError THEN Fail(s, <<>>, getTorus)
  ELSE LET called == [s EXCEPT !.initCalled = TRUE, !.initNetwork = network]
       IN  IF initOk
           THEN Ok([called EXCEPT !.isInitialized = TRUE, !.chainId = InitChain(network)],
                   <<"init", "init resolved", "showTorusButton">>)
           ELSE Fail(called, <<"init", "init rejected">>, InitRejected)

getProvider(s, initOk) ==
  IF getTorus # NoError THEN Fail(s, <<>>, getTorus)
  ELSE IF ~s.isInitialized THEN
    LET called == [s EXCEPT !.initCalled = TRUE, !.initNetwork = network]
    IN  IF initOk
        THEN Ok([called EXCEPT !.isInitialized = TRUE, !.chainId = InitChain(network)],
                <<"init", "init resolved", "showTorusButton">>)
        ELSE Fail(called, <<"init", "init rejected">>, InitRejected)
  ELSE Ok(s, <<"showTorusButton">>)

\* torusInstance.provider is there once init has resolved
ProviderOf(s) == s.isInitialized

getAccounts(s, initOk, resp) ==
  LET p == getProvider(s, initOk)
      calls == p.calls \o <<"eth_accounts">>
  IN  IF Failed(p) THEN p
      ELSE IF resp.status = "rejected"
      THEN Fail(p.s, calls \o <<"eth_accounts rejected">>, AccountsRejected)
      ELSE IF resp.status = "missing" \/ Len(resp.list) = 0
      THEN Ok(p.s, calls \o <<"eth_accounts resolved">>)
      ELSE [Ok(p.s, calls \o <<"eth_accounts resolved">>) EXCEPT
              !.accounts = Reduce(resp.list)]

getChainId_wraps(s, initOk, reqOk) ==
  LET p == getProvider(s, initOk)
      calls == p.calls \o <<"eth_chainId">>
  IN  IF Failed(p) THEN p
      ELSE IF ~reqOk
      THEN Fail(p.s, calls \o <<"eth_chainId rejected">>, SwitchChainError(ChainIdRejected))
      ELSE [Ok(p.s, calls \o <<"eth_chainId resolved">>) EXCEPT
              !.id = NumberOf(HexOf(p.s.chainId))]

getChainId(s, initOk, reqOk) ==
  LET p == getProvider(s, initOk)
      calls == p.calls \o <<"eth_chainId">>
  IN  IF Failed(p) THEN p
      ELSE IF ~reqOk THEN Fail(p.s, calls \o <<"eth_chainId rejected">>, ChainIdRejected)
      ELSE [Ok(p.s, calls \o <<"eth_chainId resolved">>) EXCEPT
              !.id = NumberOf(HexOf(p.s.chainId))]

isAuthorized_throws(s, initOk, resp) ==
  LET p == getProvider(s, initOk)
      a == getAccounts(p.s, initOk, resp)
  IN  IF Failed(p) THEN p
      ELSE IF Failed(a) THEN [a EXCEPT !.calls = p.calls \o a.calls]
      ELSE [Ok(a.s, p.calls \o a.calls) EXCEPT
              !.flag = Len(a.accounts) > 0 /\ ProviderOf(p.s)]

isAuthorized(s, initOk, resp) ==
  LET p == getProvider(s, initOk)
      a == getAccounts(p.s, initOk, resp)
  IN  IF Failed(p) THEN Ok(p.s, p.calls)
      ELSE IF Failed(a) THEN Ok(a.s, p.calls \o a.calls)
      ELSE [Ok(a.s, p.calls \o a.calls) EXCEPT
              !.flag = Len(a.accounts) > 0 /\ ProviderOf(p.s)]

isAuthorizedCall_awaited(s) == s.isLoggedIn

\* what `this.isAuthorized()` is worth in switchChain's `if (!...)`: the call is
\* not awaited, so the operand is a promise object, truthy whatever the login state
isAuthorizedCall(s) == TRUE

\* the un-awaited isAuthorized() up to its first suspension: getProvider runs
\* until it awaits init(); a rejection inside is swallowed by isAuthorized's catch
startIsAuthorized(s) ==
  IF getTorus # NoError THEN Ok(s, <<>>)
  ELSE IF ~s.isInitialized
  THEN [Ok([s EXCEPT !.initCalled = TRUE, !.initNetwork = network], <<"init">>)
          EXCEPT !.spawn = 1]
  ELSE Ok(s, <<"showTorusButton">>)

\* on an initialized SDK the un-awaited isAuthorized() goes on while switchChain
\* awaits setProvider: its getAccounts() shows the button and asks for accounts
restIsAuthorized(s) ==
  IF getTorus = NoError /\ s.isInitialized
  THEN <<"showTorusButton", "eth_accounts">> ELSE <<>>

switchChain_recomputes(chain) ==
  [defined |-> TRUE, host |-> OrEmpty(chain.rpc), chainId |-> chain.id,
   networkName |-> chain.name, tickerName |-> chain.currencyName,
   ticker |-> chain.symbol, blockExplorer |-> OrEmpty(chain.explorer)]

\* the network descriptor after switchChain has switched to `chain`: the code
\* hands host, chainId and networkName to setProvider and assigns nothing
switchChain_network(chain) == network

switchChain_rethrows(s, chainId, setOk) ==
  LET chain == Find(chains, chainId)
      d == startIsAuthorized(s)
      calls == d.calls \o <<"setProvider">> \o restIsAuthorized(s)
  IN  IF ~Found(chain) THEN Fail(s, <<>>, ChainNotFound)
      ELSE IF ~isAuthorizedCall(s) THEN Fail(s, <<>>, LoginFirst)
      ELSE IF getTorus # NoError THEN Fail(d.s, d.calls, getTorus)
      ELSE IF setOk
      THEN [Ok([d.s EXCEPT !.chainId = chainId], calls \o <<"setProvider resolved">>)
              EXCEPT !.chain = chain, !.id = chain.id, !.spawn = d.spawn,
                     !.network = switchChain_network(chain)]
      ELSE [Fail(d.s, calls \o <<"setProvider rejected">>, SetProviderRejected)
              EXCEPT !.spawn = d.spawn]

switchChain(s, chainId, setOk) ==
  LET chain == Find(chains, chainId)
      d == startIsAuthorized(s)
      calls == d.calls \o <<"setProvider">> \o restIsAuthorized(s)
  IN  IF ~Found(chain) THEN Fail(s, <<>>, SwitchChainError(ChainNotFound))
      ELSE IF ~isAuthorizedCall(s) THEN Fail(s, <<>>, SwitchChainError(LoginFirst))
      ELSE IF getTorus # NoError THEN Fail(d.s, d.calls, SwitchChainError(getTorus))
      ELSE IF setOk
      THEN [Ok([d.s EXCEPT !.chainId = chainId], calls \o <<"setProvider resolved">>)
              EXCEPT !.chain = chain, !.id = chain.id, !.spawn = d.spawn,
                     !.network = switchChain_network(chain)]
      ELSE [Fail(d.s, calls \o <<"setProvider rejected">>,
                 SwitchChainError(SetProviderRejected))
              EXCEPT !.spawn = d.spawn]

switchWanted_anyRequest(chainId, connectedChainId) == chainId # 0

\* chainId && connectedChainId !== chainId && typeof this.switchChain === "function"
switchWanted(chainId, connectedChainId) ==
  chainId # 0 /\ connectedChainId # chainId

\* outcomes of the SDK calls one connect() makes
ConnectOutcome(initOk, loginOk, resp, chainOk, first, setOk) ==
  [init |-> initOk, login |-> loginOk, resp |-> resp, chainOk |-> chainOk,
   first |-> first, set |-> setOk]

connect_rollsBack(s, chainId, o) ==
  LET p == getProvider(s, o.init)
      needLogin == ~p.s.isLoggedIn
      c1 == p.calls \o (IF needLogin THEN <<"login">> ELSE <<>>)
      l == IF needLogin THEN [p.s EXCEPT !.isLoggedIn = TRUE] ELSE p.s
      r == [l EXCEPT !.accountsChanged = @ + 1, !.chainChanged = @ + 1]
      a == getAccounts(r, TRUE, o.resp)
      g == getChainId(r, TRUE, o.chainOk)
      \* Promise.all: both lookups start, then each issues its request
      c2 == c1 \o (IF needLogin THEN <<"login resolved">> ELSE <<>>)
               \o <<"on accountsChanged", "on chainChanged">>
               \o <<a.calls[1], g.calls[1], a.calls[2], g.calls[2]>>
      both == c2 \o <<a.calls[3], g.calls[3]>>
      connectedChainId == g.id
      sw == switchChain(r, chainId, o.set)
      switched == switchWanted(chainId, connectedChainId)
      id == IF switched THEN sw.chain.id ELSE connectedChainId
      unsupported == isChainUnsupported(id)
      after == IF switched THEN sw.s ELSE r
      c3 == IF switched THEN both \o sw.calls ELSE both
      undo(u) == [u EXCEPT !.isLoggedIn = FALSE, !.accountsChanged = s.accountsChanged,
                           !.chainChanged = s.chainChanged]
  IN  IF Failed(p) THEN p
      ELSE IF needLogin /\ ~o.login
      THEN Fail(p.s, c1 \o <<"login rejected">>, LoginRejected)
      ELSE IF Failed(a) /\ (~Failed(g) \/ o.first = "accounts")
      THEN Fail(r, c2 \o <<a.calls[3]>>, a.err)
      ELSE IF Failed(g) THEN Fail(r, c2 \o <<g.calls[3]>>, g.err)
      ELSE IF switched /\ Failed(sw)
      THEN [Fail(undo(sw.s), c3 \o <<"logout">>, sw.err) EXCEPT !.spawn = sw.spawn]
      ELSE IF unsupported THEN [Fail(undo(after), c3 \o <<"logout">>, ChainNotFound) EXCEPT
                                  !.network = IF switched THEN sw.network ELSE network]
      ELSE [Ok(after, c3) EXCEPT !.accounts = a.accounts, !.id = id,
                                 !.network = IF switched THEN sw.network ELSE network]

connect(s, chainId, o) ==
  LET p == getProvider(s, o.init)
      needLogin == ~p.s.isLoggedIn
      c1 == p.calls \o (IF needLogin THEN <<"login">> ELSE <<>>)
      l == IF needLogin THEN [p.s EXCEPT !.isLoggedIn = TRUE] ELSE p.s
      r == [l EXCEPT !.accountsChanged = @ + 1, !.chainChanged = @ + 1]
      a == getAccounts(r, TRUE, o.resp)
      g == getChainId(r, TRUE, o.chainOk)
      \* Promise.all: both lookups start, then each issues its request
      c2 == c1 \o (IF needLogin THEN <<"login resolved">> ELSE <<>>)
               \o <<"on accountsChanged", "on chainChanged">>
               \o <<a.calls[1], g.calls[1], a.calls[2], g.calls[2]>>
      both == c2 \o <<a.calls[3], g.calls[3]>>
      connectedChainId == g.id
      sw == switchChain(r, chainId, o.set)
      switched == switchWanted(chainId, connectedChainId)
      id == IF switched THEN sw.chain.id ELSE connectedChainId
      unsupported == isChainUnsupported(id)
      after == IF switched THEN sw.s ELSE r
      c3 == IF switched THEN both \o sw.calls ELSE both
  IN  IF Failed(p) THEN p
      ELSE IF needLogin /\ ~o.login
      THEN Fail(p.s, c1 \o <<"login rejected">>, LoginRejected)
      ELSE IF Failed(a) /\ (~Failed(g) \/ o.first = "accounts")
      THEN Fail(r, c2 \o <<a.calls[3]>>, a.err)
      ELSE IF Failed(g) THEN Fail(r, c2 \o <<g.calls[3]>>, g.err)
      ELSE IF switched /\ Failed(sw)
      THEN [Fail(sw.s, c3, sw.err) EXCEPT !.spawn = sw.spawn]
      ELSE IF unsupported THEN [Fail(after, c3, ChainNotFound) EXCEPT
                                  !.network = IF switched THEN sw.network ELSE network]
      ELSE [Ok(after, c3) EXCEPT !.accounts = a.accounts, !.id = id,
                                 !.network = IF switched THEN sw.network ELSE network]

disconnect_resets(s, logoutOk) ==
  IF torus
  THEN IF logoutOk
       THEN [Ok(NewTorus, <<"logout", "logout resolved">>) EXCEPT !.network = NoNetwork]
       ELSE Fail(s, <<"logout", "logout rejected">>, LogoutRejected)
  ELSE Ok(s, <<>>)

disconnect_unregisters(s, logoutOk) ==
  IF torus
  THEN IF logoutOk
       THEN Ok([s EXCEPT !.isLoggedIn = FALSE, !.accountsChanged = 0, !.chainChanged = 0],
               <<"logout", "logout resolved">>)
       ELSE Fail(s, <<"logout", "logout rejected">>, LogoutRejected)
  ELSE Ok(s, <<>>)

disconnect(s, logoutOk) ==
  IF torus
  THEN IF logoutOk
       THEN Ok([s EXCEPT !.isLoggedIn = FALSE], <<"logout", "logout resolved">>)
       ELSE Fail(s, <<"logout", "logout rejected">>, LogoutRejected)
  ELSE Ok(s, <<>>)

\* ------------------------------------------------------------ event relays
\* config.emitter.emit(type, payload)
Emit(type, accounts, chainId) ==
  [type |-> type, accounts |-> accounts, chainId |-> chainId]

onAccountsChanged_all(accounts) ==
  IF Len(accounts) = 0 \/ ~TruthyEntry(accounts[1])
  THEN <<Emit("disconnect", <<>>, 0)>>
  ELSE <<Emit("change", Reduce(accounts), 0)>>

onAccountsChanged(accounts) ==
  IF Len(accounts) = 0 \/ ~TruthyEntry(accounts[1])
  THEN <<Emit("disconnect", <<>>, 0)>>
  ELSE <<Emit("change", <<getAddress(accounts[1])>>, 0)>>

onChainChanged(chainId) == <<Emit("change", <<>>, NumberOf(chainId))>>

onConnect(s, initOk, resp, chainId) ==
  LET a == getAccounts(s, initOk, resp)
  IN  IF Failed(a) THEN <<>>
      ELSE <<Emit("connect", a.accounts, NumberOf(chainId))>>

onDisconnect == <<Emit("disconnect", <<>>, 0)>>

\* ----------------------------------------------------------------- actions
NoLast ==
  [op |-> "none", arg |-> 0, resp |-> NoResponse, err |-> NoError,
   accounts |-> <<>>, id |-> 0, flag |-> FALSE, chain |-> NoChain,
   calls |-> <<>>, events |-> <<>>]

\* the caller issues one operation at a time
Idle == last.op = "none"

\* the caller sees operation op(arg) settle as r, having emitted events
SettleWith(op, arg, resp, r, events) ==
  /\ detached.cur + detached.stale + r.spawn <= MaxDetached
  /\ sdk' = r.s
  /\ detached' = [detached EXCEPT !.cur = @ + r.spawn]
  /\ last' = [op |-> op, arg |-> arg, resp |-> resp, err |-> r.err,
              accounts |-> r.accounts, id |-> r.id, flag |-> r.flag,
              chain |-> r.chain, calls |-> r.calls, events |-> events]
  /\ network' = r.network
  /\ UNCHANGED <<chains, options, torus>>

Settle(op, arg, resp, r) == SettleWith(op, arg, resp, r, <<>>)

\* the response the eth_accounts request of this operation gets, if it makes one
Responses(s, initOk, all) ==
  IF Failed(getProvider(s, initOk)) THEN {NoResponse}
  ELSE AccountsOutcomes(getProvider(s, initOk).s, all)

Init ==
  /\ chains \in ChainLists
  /\ options \in OptionSets
  /\ torus = FALSE
  /\ network = NoNetwork
  /\ sdk = NewTorus
  /\ detached = [cur |-> 0, stale |-> 0]
  /\ last = NoLast

setup_firstChain ==
  LET chainId == IF options.chainId # 0 THEN options.chainId ELSE 1
      host == IF options.host # "" THEN options.host ELSE "mainnet"
      chain == chains[1]
  IN  [defined |-> TRUE, host |-> host, chainId |-> chainId,
       networkName |-> chain.name, tickerName |-> chain.currencyName,
       ticker |-> chain.symbol, blockExplorer |-> OrEmpty(chain.explorer)]

\* the network descriptor setup() leaves behind
setup_network ==
  LET chainId == IF options.chainId # 0 THEN options.chainId ELSE 1
      host == IF options.host # "" THEN options.host ELSE "mainnet"
      chain == Find(chains, chainId)
  IN  IF Found(chain)
      THEN [defined |-> TRUE, host |-> host, chainId |-> chainId,
            networkName |-> chain.name, tickerName |-> chain.currencyName,
            ticker |-> chain.symbol, blockExplorer |-> OrEmpty(chain.explorer)]
      ELSE network

Setup ==
  /\ Idle
  /\ torus' = TRUE
  /\ network' = setup_network
  /\ sdk' = NewTorus
  /\ detached' = [cur |-> 0, stale |-> detached.cur + detached.stale]
  /\ last' = [NoLast EXCEPT !.op = "setup"]
  /\ UNCHANGED <<chains, options>>

GetProvider ==
  /\ Idle
  /\ \E initOk \in InitOutcomes(sdk) :
    Settle("getProvider", 0, NoResponse, getProvider(sdk, initOk))

GetAccounts ==
  /\ Idle
  /\ \E initOk \in InitOutcomes(sdk) :
    \E resp \in Responses(sdk, initOk, RawOutcomes) :
      Settle("getAccounts", 0, resp, getAccounts(sdk, initOk, resp))

GetChainId ==
  /\ Idle
  /\ \E initOk \in InitOutcomes(sdk), reqOk \in BOOLEAN :
    Settle("getChainId", 0, NoResponse, getChainId(sdk, initOk, reqOk))

IsAuthorized ==
  /\ Idle
  /\ \E initOk \in InitOutcomes(sdk) :
    \E resp \in Responses(sdk, initOk, WalletOutcomes) :
      Settle("isAuthorized", 0, resp, isAuthorized(sdk, initOk, resp))

SwitchChain ==
  /\ Idle
  /\ \E chainId \in WalletChainIds :
    \E setOk \in (IF torus /\ Found(Find(chains, chainId)) THEN BOOLEAN ELSE {TRUE}) :
      Settle("switchChain", chainId, NoResponse, switchChain(sdk, chainId, setOk))

\* connect gets as far as its two lookups
ReachesLookups(initOk, loginOk) ==
  /\ ~Failed(getProvider(sdk, initOk))
  /\ sdk.isLoggedIn \/ loginOk

Connect ==
  /\ Idle
  /\ sdk.accountsChanged < MaxListeners
  /\ \E chainId \in RequestIds, initOk \in InitOutcomes(sdk) :
       \E loginOk \in (IF Failed(getProvider(sdk, initOk)) \/ sdk.isLoggedIn
                          THEN {TRUE} ELSE BOOLEAN) :
         \E resp \in (IF ReachesLookups(initOk, loginOk)
                        THEN WalletOutcomes
                        ELSE {NoResponse}),
            chainOk \in (IF ReachesLookups(initOk, loginOk) THEN BOOLEAN ELSE {TRUE}) :
           \E first \in (IF resp.status = "rejected" /\ ~chainOk
                           THEN {"accounts", "chainId"} ELSE {"accounts"}),
              setOk \in (IF chainId # 0 /\ resp.status \in {"missing", "list"} /\ chainOk
                           THEN BOOLEAN ELSE {TRUE}) :
             Settle("connect", chainId, resp,
                    connect(sdk, chainId,
                            ConnectOutcome(initOk, loginOk, resp, chainOk, first, setOk)))

Disconnect ==
  /\ Idle
  /\ \E logoutOk \in (IF torus THEN BOOLEAN ELSE {TRUE}) :
    Settle("disconnect", 0, NoResponse, disconnect(sdk, logoutOk))

OnAccountsChanged ==
  /\ Idle
  /\ \E accounts \in RawLists :
    SettleWith("onAccountsChanged", 0, Listed(accounts), Ok(sdk, <<>>),
               onAccountsChanged(accounts))

OnChainChanged ==
  /\ Idle
  /\ \E c \in WalletChainIds :
    SettleWith("onChainChanged", c, NoResponse, Ok(sdk, <<>>), onChainChanged(HexOf(c)))

OnConnect ==
  /\ Idle
  /\ \E c \in WalletChainIds, initOk \in InitOutcomes(sdk) :
    \E resp \in Responses(sdk, initOk, WalletOutcomes) :
      SettleWith("onConnect", c, resp,
                 [getAccounts(sdk, initOk, resp) EXCEPT !.accounts = <<>>],
                 onConnect(sdk, initOk, resp, HexOf(c)))

OnDisconnect ==
  /\ Idle
  /\ SettleWith("onDisconnect", 0, NoResponse, Ok(sdk, <<>>), onDisconnect)

RECURSIVE Times(_, _)
Times(n, events) == IF n = 0 THEN <<>> ELSE events \o Times(n - 1, events)

\* the user changes the network in the wallet: the provider calls every
\* registered chainChanged listener
WalletChainChanged ==
  /\ Idle
  /\ \E c \in WalletChainIds :
    /\ torus /\ sdk.isInitialized /\ c # sdk.chainId
    /\ SettleWith("chainChanged", c, NoResponse, Ok([sdk EXCEPT !.chainId = c], <<>>),
                  Times(sdk.chainChanged, onChainChanged(HexOf(c))))

\* an un-awaited isAuthorized() goes on once the init() it waits for settles;
\* nobody looks at what it resolves to
DetachedResume ==
  /\ Idle
  /\ \E kind \in {"cur", "stale"}, initOk \in BOOLEAN :
    /\ detached[kind] > 0
    /\ LET s1 == IF kind = "cur" /\ initOk /\ ~sdk.isInitialized
                 THEN [sdk EXCEPT !.isInitialized = TRUE,
                                  !.chainId = InitChain(sdk.initNetwork)]
                 ELSE sdk
       IN  IF ~initOk THEN sdk' = sdk
           ELSE \E again \in InitOutcomes(s1) :
                  \E resp \in Responses(s1, again, WalletOutcomes) :
                    sdk' = getAccounts(s1, again, resp).s
    /\ detached' = [detached EXCEPT ![kind] = @ - 1]
    /\ UNCHANGED <<chains, options, torus, network, last>>

\* the caller takes the settled result and is free to issue the next operation
Return ==
  /\ ~Idle
  /\ last' = NoLast
  /\ UNCHANGED <<chains, options, torus, network, sdk, detached>>

Next ==
  \/ Return
  \/ Setup
  \/ Connect
  \/ Disconnect
  \/ GetAccounts
  \/ GetChainId
  \/ GetProvider
  \/ IsAuthorized
  \/ SwitchChain
  \/ OnAccountsChanged
  \/ OnChainChanged
  \/ OnConnect
  \/ OnDisconnect
  \/ WalletChainChanged
  \/ DetachedResume

Spec == Init /\ [][Next]_vars

\* ------------------------------------------------------------- properties
Has(calls, call) == \E i \in 1..Len(calls) : calls[i] = call

ConfiguredIds == { chains[i].id : i \in 1..Len(chains) }

\* the account list an eth_accounts response carries, empty entries dropped
NonEmptyEntries(resp) ==
  IF resp.status = "list" THEN SelectSeq(resp.list, LAMBDA e : e \notin {"", Null})
  ELSE <<>>

ChecksumForm(address) == address \in {"0xAb", "0xCd"}

\* two spellings of one address
SameAddress(x, y) ==
  \E spellings \in {{"0xab", "0xAb"}, {"0xcd", "0xCd"}} : x \in spellings /\ y \in spellings

\* C1: switchChain({chainId: c}) succeeds, returning the chain descriptor with
\* id c, if and only if the chain list has a chain with id c and the SDK's
\* setProvider resolves; every failure is a SwitchChainError.
C1_SwitchChainOutcome ==
  last.op = "switchChain" =>
    /\ last.err = NoError <=>
         (last.arg \in ConfiguredIds /\ Has(last.calls, "setProvider resolved"))
    /\ last.err = NoError =>
         /\ last.chain.id = last.arg
         /\ \E i \in 1..Len(chains) : chains[i] = last.chain
    /\ last.err # NoError => Kind(last.err) = "SwitchChainError" /\ last.chain = NoChain

\* a configured chain whose setProvider call the SDK rejects
C1_Witness ==
  /\ last.op = "switchChain"
  /\ last.arg \in ConfiguredIds
  /\ Has(last.calls, "setProvider rejected")
  /\ last.err = SwitchChainError(SetProviderRejected)

InstanceOperations ==
  {"connect", "getAccounts", "getChainId", "getProvider", "isAuthorized",
   "switchChain", "onConnect"}

\* C2 as stated: before setup() every operation that needs the SDK instance
\* fails with the uninitialized-instance error, and with no other outcome.
C2_AlwaysUninitializedError ==
  (~torus /\ last.op \in InstanceOperations) => last.err = UninitializedError

\* C2, amended: before setup() connect, getAccounts, getChainId, getProvider and
\* onConnect fail with the uninitialized-instance error; isAuthorized resolves
\* to false; switchChain fails with a SwitchChainError, whose cause is the
\* uninitialized-instance error when the chain is configured; none of them makes
\* an SDK call or emits an event.
C2_BeforeSetup ==
  (~torus /\ last.op \in InstanceOperations) =>
    /\ last.calls = <<>> /\ last.events = <<>>
    /\ last.accounts = <<>> /\ last.id = 0 /\ last.chain = NoChain /\ ~last.flag
    /\ last.op \notin {"isAuthorized", "switchChain"} => last.err = UninitializedError
    /\ last.op = "isAuthorized" => last.err = NoError
    /\ last.op = "switchChain" =>
         /\ Kind(last.err) = "SwitchChainError"
         /\ last.arg \in ConfiguredIds => last.err = SwitchChainError(UninitializedError)

\* connect() issued before any setup()
C2_Witness ==
  ~torus /\ last.op = "connect" /\ last.err = UninitializedError

\* the chain id connect() checks: the requested one when a switch to it was
\* attempted, otherwise the one the wallet reported
ResolvedChainId ==
  IF last.arg # 0 /\ (Has(last.calls, "setProvider resolved") \/ sdk.chainId # last.arg)
  THEN last.arg ELSE sdk.chainId

LookupsResolved ==
  Has(last.calls, "eth_accounts resolved") /\ Has(last.calls, "eth_chainId resolved")

\* C3: a connect() whose lookups succeeded and whose resolved chain id is not
\* configured fails with a SwitchChainError and returns nothing; a connect()
\* that succeeds returns the resolved chain id, which is configured.
C3_ConnectChainCheck ==
  last.op = "connect" =>
    /\ (LookupsResolved /\ ResolvedChainId \notin ConfiguredIds) =>
         /\ Kind(last.err) = "SwitchChainError"
         /\ last.accounts = <<>> /\ last.id = 0
    /\ last.err = NoError =>
         /\ LookupsResolved
         /\ last.id = ResolvedChainId
         /\ last.id \in ConfiguredIds

\* the wallet reported an account and sits on a chain that is not configured
C3_Witness ==
  /\ last.op = "connect" /\ last.arg = 0
  /\ LookupsResolved /\ NonEmptyEntries(last.resp) # <<>>
  /\ sdk.chainId \notin ConfiguredIds
  /\ last.err = ChainNotFound

\* C4: isAuthorized() never rejects; it resolves to true if and only if the
\* provider was obtained and the account lookup returned a non-empty list.
C4_IsAuthorizedTotal ==
  last.op = "isAuthorized" =>
    /\ last.err = NoError
    /\ last.flag <=>
         /\ torus /\ sdk.isInitialized
         /\ Has(last.calls, "eth_accounts resolved")
         /\ NonEmptyEntries(last.resp) # <<>>

\* the eth_accounts request is rejected and isAuthorized() resolves to false
C4_Witness ==
  /\ last.op = "isAuthorized"
  /\ Has(last.calls, "eth_accounts rejected")
  /\ last.err = NoError /\ ~last.flag

\* C5: getAccounts() returns the checksum forms of the non-empty entries of the
\* raw response, in their order; a missing or empty response gives the empty list.
C5_GetAccountsNormalizes ==
  (last.op = "getAccounts" /\ last.err = NoError) =>
    LET kept == NonEmptyEntries(last.resp)
    IN  /\ Len(last.accounts) = Len(kept)
        /\ \A i \in 1..Len(kept) :
             ChecksumForm(last.accounts[i]) /\ SameAddress(last.accounts[i], kept[i])

\* the raw response ["0xab", "", null]
C5_Witness ==
  /\ last.op = "getAccounts"
  /\ last.resp = Listed(<<"0xab", "", Null>>)
  /\ last.accounts = <<"0xAb">>

\* C6: onAccountsChanged(list) emits exactly one event: disconnect when the
\* list is empty or its first entry is empty, otherwise change with the
\* checksum form of the first address as its only account.
C6_OnAccountsChangedOneEvent ==
  last.op = "onAccountsChanged" =>
    LET list == last.resp.list
        event == last.events[1]
    IN  /\ Len(last.events) = 1
        /\ IF list = <<>> \/ list[1] \in {"", Null}
           THEN event.type = "disconnect"
           ELSE /\ event.type = "change"
                /\ Len(event.accounts) = 1
                /\ ChecksumForm(event.accounts[1])
                /\ SameAddress(event.accounts[1], list[1])

\* two addresses reported, one account in the change event
C6_Witness ==
  /\ last.op = "onAccountsChanged"
  /\ last.resp = Listed(<<"0xab", "0xCd">>)
  /\ last.events = <<Emit("change", <<"0xAb">>, 0)>>

\* C7: after setup, switchChain to a configured chain reaches the setProvider
\* call in every login state, and no operation fails with "Please login first".
C7_AuthorizationNeverBlocks ==
  /\ ~Has(last.err, "Please login first")
  /\ (last.op = "switchChain" /\ torus /\ last.arg \in ConfiguredIds) =>
       Has(last.calls, "setProvider")

\* nobody is logged in and the switch goes through
C7_Witness ==
  /\ last.op = "switchChain" /\ last.err = NoError
  /\ sdk.isInitialized /\ ~sdk.isLoggedIn

\* C8: on one SDK instance the registrations per event never decrease; they
\* grow by one with each connect() that reaches the registration and change in
\* no other step, disconnect() included.
C8_ListenersPersist ==
  [][ last'.op # "setup" =>
        LET registers == last'.op = "connect" /\ Has(last'.calls, "on accountsChanged")
                           /\ Has(last'.calls, "on chainChanged")
            grown == IF registers THEN 1 ELSE 0
        IN  /\ sdk'.accountsChanged = sdk.accountsChanged + grown
            /\ sdk'.chainChanged = sdk.chainChanged + grown ]_vars

\* disconnect() after two connects: both registrations of each event are there
C8_Witness ==
  /\ last.op = "disconnect" /\ last.err = NoError
  /\ sdk.accountsChanged = 2 /\ sdk.chainChanged = 2

\* C9 as stated: after a successful switchChain({chainId: c}) the network
\* descriptor is the one derived from the chain with id c.
C9_SwitchChainRecomputesNetwork ==
  (last.op = "switchChain" /\ last.err = NoError) =>
    /\ network.defined
    /\ network.chainId = last.arg
    /\ network.networkName = last.chain.name

\* C9, amended: the network descriptor is computed by setup() only; switchChain
\* leaves it as it is, and every init() is given the descriptor setup() left.
C9_NetworkSetBySetupOnly ==
  [][ /\ last'.op # "setup" => network' = network
      /\ (sdk'.initCalled /\ last'.op # "setup") => sdk'.initNetwork = network ]_vars

\* switched to a chain other than the one the descriptor names
C9_Witness ==
  /\ last.op = "switchChain" /\ last.err = NoError
  /\ network.defined /\ network.chainId # last.arg /\ sdk.chainId = last.arg

ConfiguredChainId == IF options.chainId = 0 THEN 1 ELSE options.chainId
ConfiguredHost == IF options.host = "" THEN "mainnet" ELSE options.host

\* C10: after setup() the network descriptor is defined if and only if a
\* configured chain has the configured chainId (1 by default); its fields then
\* come from one such chain entry and its host is the configured host
\* ("mainnet" by default); otherwise init() is called without a network.
C10_NetworkFromConfiguredChain ==
  torus =>
    /\ network.defined <=> ConfiguredChainId \in ConfiguredIds
    /\ network.defined =>
         /\ network.host = ConfiguredHost
         /\ network.chainId = ConfiguredChainId
         /\ \E i \in 1..Len(chains) :
              /\ chains[i].id = network.chainId
              /\ chains[i].name = network.networkName
              /\ chains[i].currencyName = network.tickerName
              /\ chains[i].symbol = network.ticker
              /\ network.blockExplorer =
                   (IF chains[i].explorer = Undefined THEN "" ELSE chains[i].explorer)
    /\ ~network.defined => (network = NoNetwork /\ sdk.initNetwork = NoNetwork)

\* no configured chain has the configured id, and the SDK was initialized
C10_Witness ==
  /\ torus /\ ~network.defined
  /\ sdk.initCalled /\ sdk.isInitialized

\* the stage of connect() an SDK call belongs to (0: showing the button)
Stage(call) ==
  CASE call \in {"init", "init resolved", "init rejected"} -> 1
    [] call \in {"login", "login resolved", "login rejected"} -> 2
    [] call \in {"on accountsChanged", "on chainChanged"} -> 3
    [] call \in {"eth_accounts", "eth_accounts resolved", "eth_accounts rejected",
                 "eth_chainId", "eth_chainId resolved", "eth_chainId rejected"} -> 4
    [] call \in {"setProvider", "setProvider resolved", "setProvider rejected"} -> 5
    [] OTHER -> 0

Count(calls, call) == Len(SelectSeq(calls, LAMBDA c : c = call))

RECURSIVE UpTo(_, _)
\* the calls up to the first `call`
UpTo(calls, call) ==
  IF calls = <<>> THEN <<>>
  ELSE IF Head(calls) = call THEN <<call>>
  ELSE <<Head(calls)>> \o UpTo(Tail(calls), call)

\* the stages of the calls connect() itself makes, up to the setProvider call
\* of its switch, showing the button left out
OwnStages(calls) ==
  LET own == SelectSeq(UpTo(calls, "setProvider"), LAMBDA c : Stage(c) # 0)
  IN  [i \in 1..Len(own) |-> Stage(own[i])]

\* C11: in a connect() the SDK calls come in the order init (exactly when the
\* SDK is not initialized), login (exactly when nobody is logged in), the two
\* listener registrations, the two lookups, at most one setProvider; nothing
\* is registered or looked up before login has resolved.
C11_ConnectCallOrder ==
  [][ last'.op = "connect" =>
        LET calls == last'.calls
            stages == OwnStages(calls)
        IN  /\ \A i \in 1..(Len(stages) - 1) : stages[i] <= stages[i + 1]
            /\ Count(calls, "init") = (IF torus /\ ~sdk.isInitialized THEN 1 ELSE 0)
            /\ Count(calls, "login") =
                 (IF torus /\ ~sdk.isLoggedIn /\ ~Has(calls, "init rejected") THEN 1 ELSE 0)
            /\ Count(calls, "setProvider") <= 1
            /\ Has(calls, "on accountsChanged") <=> Has(calls, "on chainChanged")
            /\ (Has(calls, "eth_accounts") \/ Has(calls, "eth_chainId")) =>
                 Has(calls, "on accountsChanged")
            /\ (Has(calls, "login") /\ Has(calls, "on accountsChanged")) =>
                 Has(calls, "login resolved") ]_vars

\* a connect() that initializes, logs in, registers, looks up and switches
C11_Witness ==
  /\ last.op = "connect" /\ last.err = NoError
  /\ Has(last.calls, "init resolved") /\ Has(last.calls, "login resolved")
  /\ Has(last.calls, "setProvider resolved")

\* C12: a connect() whose lookups resolved and that was asked for a chain other
\* than the wallet's current one makes exactly one switch attempt: it returns
\* the requested id when setProvider resolves and fails with a SwitchChainError
\* when the switch fails; asked for no chain, or for the current one, it calls
\* no setProvider, leaves the wallet's chain alone and returns the current id.
C12_ConnectSwitchesOnce ==
  [][ ( /\ last'.op = "connect"
        /\ Has(last'.calls, "eth_accounts resolved")
        /\ Has(last'.calls, "eth_chainId resolved") ) =>
        LET current == IF sdk.isInitialized THEN sdk.chainId ELSE InitChain(network)
            requested == last'.arg
            wanted == requested # 0 /\ requested # current
        IN  /\ (wanted /\ requested \in ConfiguredIds) =>
                 /\ Count(last'.calls, "setProvider") = 1
                 /\ Has(last'.calls, "setProvider resolved") =>
                      /\ last'.err = NoError
                      /\ last'.id = requested
                      /\ sdk'.chainId = requested
                 /\ Has(last'.calls, "setProvider rejected") =>
                      /\ last'.err = SwitchChainError(SetProviderRejected)
                      /\ sdk'.chainId = current
            /\ (wanted /\ requested \notin ConfiguredIds) =>
                 /\ Count(last'.calls, "setProvider") = 0
                 /\ last'.err = SwitchChainError(ChainNotFound)
            /\ ~wanted =>
                 /\ Count(last'.calls, "setProvider") = 0
                 /\ sdk'.chainId = current
                 /\ last'.err = NoError => last'.id = current
                 /\ last'.err # NoError => last'.err = ChainNotFound ]_vars

\* the wallet starts on the default chain, which is not configured, and
\* connect() switches to the requested one
C12_Witness ==
  /\ last.op = "connect" /\ last.err = NoError
  /\ ~network.defined /\ DefaultWalletChain \notin ConfiguredIds
  /\ Has(last.calls, "init resolved") /\ Has(last.calls, "setProvider resolved")
  /\ last.id = last.arg /\ sdk.chainId = last.arg

\* C13: disconnect() calls logout exactly once, and nothing else, when a Torus
\* instance exists; before any setup it makes no SDK call and succeeds. Either
\* way the instance handle, the network descriptor and what the instance knows
\* of its initialization stay as they were.
C13_DisconnectOnlyLogsOut ==
  [][ last'.op = "disconnect" =>
        /\ torus' = torus
        /\ network' = network
        /\ sdk'.isInitialized = sdk.isInitialized
        /\ sdk'.initCalled = sdk.initCalled
        /\ sdk'.chainId = sdk.chainId
        /\ torus => /\ Count(last'.calls, "logout") = 1
                    /\ Len(last'.calls) = 2
                    /\ last'.calls[2] \in {"logout resolved", "logout rejected"}
        /\ ~torus => (last'.calls = <<>> /\ last'.err = NoError) ]_vars

\* a logout of a set-up, initialized, logged-in instance
C13_Witness ==
  /\ last.op = "disconnect" /\ last.err = NoError
  /\ torus /\ network.defined /\ sdk.isInitialized
  /\ last.calls = <<"logout", "logout resolved">>

\* the rejection of each SDK call, as the SDK raised it
RejectionOf(call) ==
  CASE call = "init rejected" -> InitRejected
    [] call = "login rejected" -> LoginRejected
    [] call = "eth_accounts rejected" -> AccountsRejected
    [] call = "eth_chainId rejected" -> ChainIdRejected
    [] OTHER -> NoError

\* C14: in getProvider, getAccounts, getChainId and connect a rejected init,
\* login, eth_accounts or eth_chainId ends the operation on the spot with that
\* very rejection: it is the last thing in the call log (in connect, the lookup
\* that rejected first), the call was issued once (what switchChain then does
\* on connect's behalf aside), and the caller gets the SDK's error as raised.
C14_FailuresPropagateUnmodified ==
  last.op \in {"getProvider", "getAccounts", "getChainId", "connect"} =>
    /\ \A i \in 1..Len(last.calls) :
         RejectionOf(last.calls[i]) # NoError =>
           /\ i = Len(last.calls)
           /\ last.err = RejectionOf(last.calls[i])
    /\ \A call \in {"init", "login", "eth_accounts", "eth_chainId"} :
         Count(UpTo(last.calls, "setProvider"), call) <= 1
    /\ (last.err # NoError /\ Kind(last.err) \notin {"SwitchChainError", Kind(UninitializedError)}) =>
         (last.calls # <<>> /\ RejectionOf(last.calls[Len(last.calls)]) = last.err)

\* connect() whose eth_chainId lookup is the first to reject
C14_Witness ==
  /\ last.op = "connect" /\ last.err = ChainIdRejected
  /\ Has(last.calls, "eth_accounts") /\ ~Has(last.calls, "eth_accounts resolved")
  /\ last.calls[Len(last.calls)] = "eth_chainId rejected"

\* C15, as claimed: the list getAccounts() returns has no address twice.
C15_NoDuplicates ==
  (last.op = "getAccounts" /\ last.err = NoError) =>
    \A i, j \in 1..Len(last.accounts) :
      last.accounts[i] = last.accounts[j] => i = j

\* C15, as the code has it: only empty entries are dropped; an address the raw
\* response lists n times, in whatever spelling, is returned n times.
C15_DuplicatesKept ==
  (last.op = "getAccounts" /\ last.err = NoError) =>
    \A address \in {"0xAb", "0xCd"} :
      Count(last.accounts, address) =
        Len(SelectSeq(NonEmptyEntries(last.resp), LAMBDA e : SameAddress(e, address)))

\* the raw response ["0xab", "0xab"]
C15_Witness ==
  /\ last.op = "getAccounts"
  /\ last.resp = Listed(<<"0xab", "0xab">>)
  /\ last.accounts = <<"0xAb", "0xAb">>

\* C16: between two setups the caller's operations, issued one at a time, never
\* invoke init() on an instance whose init() is pending or has resolved (the
\* least "at most once" asks for), and issue login, setProvider and provider
\* requests only on an initialized instance: one that was initialized before
\* the operation, or whose init() resolved earlier in the same operation.
C16_InitOnceAndFirst ==
  [][ (last'.op \notin {"none", "setup"} /\ torus) =>
        /\ Has(last'.calls, "init") => (~sdk.isInitialized /\ detached.cur = 0)
        /\ \A call \in {"login", "setProvider", "eth_accounts", "eth_chainId"} :
             Has(last'.calls, call) =>
               \/ sdk.isInitialized
               \/ Has(UpTo(last'.calls, call), "init resolved") ]_vars

\* C17: a connect() that fails with a SwitchChainError, at its chain check or in
\* its switch attempt, undoes nothing: the wallet stays logged in, both
\* listeners it registered stay registered, logout is not called, and an
\* isAuthorized() issued next returns true if the wallet lists an account.
C17_FailedConnectKeepsLogin ==
  [][ (last'.op = "connect" /\ Kind(last'.err) = "SwitchChainError") =>
        /\ sdk'.isLoggedIn
        /\ sdk'.accountsChanged = sdk.accountsChanged + 1
        /\ sdk'.chainChanged = sdk.chainChanged + 1
        /\ ~Has(last'.calls, "logout")
        /\ \E resp \in Responses(sdk', TRUE, WalletOutcomes) :
             LET next == isAuthorized(sdk', TRUE, resp)
             IN  next.flag /\ next.err = NoError ]_vars

\* connect() logged in, registered its listeners and then failed its chain check
C17_Witness ==
  /\ last.op = "connect" /\ last.err = ChainNotFound
  /\ Has(last.calls, "login resolved") /\ Has(last.calls, "on chainChanged")
  /\ sdk.isLoggedIn /\ sdk.accountsChanged > 0
  /\ isAuthorized(sdk, TRUE, Listed(<<"0xab">>)).flag

====
